---- MODULE Spec2Model ----
(***************************************************************************)
(* Model of src/quran_api_server.py: the sliding-window rate limiter       *)
(* (check_rate_limit, the rate_limit decorator) and the query handlers     *)
(* behind it.                                                              *)
(*                                                                         *)
(* Time is counted in whole seconds.  The limiter's three magnitudes       *)
(* (requests per window, window length, seconds per day) are scaled down   *)
(* so that every sequence of calls over more than a day can be explored;   *)
(* their order RATE_LIMIT_REQUESTS <= RATE_LIMIT_WINDOW < SecondsPerDay is *)
(* the one of the source (100 <= 3600 < 86400).                            *)
(***************************************************************************)
EXTENDS Integers, Sequences, FiniteSets, TLC

(* ------------------------------ bounds -------------------------------- *)

\* src line 40 sets RATE_LIMIT_REQUESTS = 100; scaled.
RATE_LIMIT_REQUESTS == 3

\* src line 41 sets RATE_LIMIT_WINDOW = 3600; scaled.
RATE_LIMIT_WINDOW == 3

\* datetime.timedelta normalises to days + seconds with 0 <= seconds < 86400;
\* scaled.
SecondsPerDay == 7

\* The wall clock is followed up to this second.
MaxClock == 9

\* request.remote_addr of the callers.
Clients == {"ip1", "ip2"}

\* Worker threads serving requests at the same time.
Threads == {"t1", "t2"}

\* src line 300/552 cap limit at 500, and default it to 50; scaled.
MAX_LIMIT == 2

DEFAULT_LIMIT == 1

\* Sura and verse numbers requested run from 0 to this.
MaxRef == 3

\* The wall clock is followed up to this second while requests are served.
MaxServerClock == 1

\* Calls each worker thread serves.
MaxCallsPerThread == 2

\* The wall clock is followed up to this second while the threads run.
MaxThreadClock == 1

(* ------------------------- the database file --------------------------- *)
(* DB_PATH names a SQLite file that is not part of the repository.  The    *)
(* rows below are a small corpus in its schema; strings the code searches  *)
(* in are sequences of characters.                                         *)

Tables == {"tanzil_texts", "sura_info", "enhanced_translations", "diyanet_meal",
           "transliteration", "morphology_segments"}

tanzil_texts ==
    { [sura |-> 1, aya |-> 1, text_simple |-> <<"k", "t", "b">>],
      [sura |-> 1, aya |-> 2, text_simple |-> <<"t", "k">>],
      [sura |-> 2, aya |-> 1, text_simple |-> <<"K", "t">>] }

sura_info ==
    { [sura_number |-> 1, sura_name_turkish |-> "Fatiha", verse_count |-> 2],
      [sura_number |-> 2, sura_name_turkish |-> "Bakara", verse_count |-> 1] }

enhanced_translations ==
    { [sura |-> 1, verse |-> 1, translator_id |-> "en", text |-> "en 1:1"],
      [sura |-> 1, verse |-> 1, translator_id |-> "tr", text |-> "tr 1:1"],
      [sura |-> 2, verse |-> 1, translator_id |-> "en", text |-> "en 2:1"] }

diyanet_meal == { [surah |-> 1, verse |-> 1, meal |-> "meal 1:1"] }

transliteration ==
    { [surah |-> 1, verse |-> 1, transliteration |-> "ktb"],
      [surah |-> 1, verse |-> 2, transliteration |-> "tk"] }

morphology_segments ==
    { [sura |-> 1, verse |-> 1, word_number |-> 1, word_arabic |-> "w1",
       segment_arabic |-> "s1", root |-> <<"k", "t">>, lemma |-> <<"k", "t">>,
       pos_tag |-> "N"],
      [sura |-> 1, verse |-> 1, word_number |-> 2, word_arabic |-> "w2",
       segment_arabic |-> "s2", root |-> <<"k", "t", "b">>,
       lemma |-> <<"k", "t", "b">>, pos_tag |-> "V"],
      [sura |-> 1, verse |-> 2, word_number |-> 1, word_arabic |-> "w3",
       segment_arabic |-> "s3", root |-> <<"k", "t">>, lemma |-> <<"t", "k">>,
       pos_tag |-> "N"],
      [sura |-> 1, verse |-> 2, word_number |-> 2, word_arabic |-> "w4",
       segment_arabic |-> "s4", root |-> <<"t", "k">>, lemma |-> <<"t", "k">>,
       pos_tag |-> "N"] }

\* The database files the server may find at DB_PATH: the full one, ones built
\* without an optional dataset, an empty file (sqlite3.connect creates it when
\* the path names no file), and a path that cannot be opened.
DbStates ==
    { [connect |-> TRUE,  tables |-> Tables],
      [connect |-> TRUE,  tables |-> Tables \ {"morphology_segments"}],
      [connect |-> TRUE,  tables |-> Tables \ {"enhanced_translations"}],
      [connect |-> TRUE,  tables |-> {}],
      [connect |-> FALSE, tables |-> {}] }

\* http before the first request.
NoRequest == [op |-> "none"]

(* ------------------------------ state --------------------------------- *)

VARIABLES
    now,                 \* the wall clock datetime.now() reads
    RATE_LIMIT_ENABLED,  \* configuration flag, line 39
    request_log,         \* dict ip -> list of timestamps, line 44
    last,                \* the latest check_rate_limit call: its ip, the clock
                         \* value it read (line 80) and its result
    admitted,            \* history: per client, the timestamps of the calls
                         \* admitted during the trailing window (now - t < window)
    th,                  \* the worker threads of app.run(threaded=True): for each
                         \* its place in check_rate_limit and its locals
    db,                  \* the SQLite file at DB_PATH: whether connecting succeeds
                         \* and which tables it holds
    http                 \* the latest HTTP request served and its response

vars == <<now, RATE_LIMIT_ENABLED, request_log, last, admitted, th, db, http>>

(* ----------------------------- helpers -------------------------------- *)

Range(s) == {s[i] : i \in 1..Len(s)}

\* d[k] = v on a Python dict: the key is created when absent.
DictPut(d, k, v) == [x \in (DOMAIN d) \cup {k} |-> IF x = k THEN v ELSE d[x]]

\* timedelta.seconds of a difference of d whole seconds: the seconds field
\* only, the days field is left out.
TdSeconds(d) == d % SecondsPerDay

\* line 85: [t for t in request_log[ip] if (now - t).seconds < RATE_LIMIT_WINDOW]
Prune(ts, t) == SelectSeq(ts, LAMBDA x : TdSeconds(t - x) < RATE_LIMIT_WINDOW)

\* Mutant of OverLimit: the test written with > lets one call too many through.
OverLimit_OffByOne(ts) == Len(ts) > RATE_LIMIT_REQUESTS

\* line 88: len(request_log[ip]) >= RATE_LIMIT_REQUESTS
OverLimit(ts) == Len(ts) >= RATE_LIMIT_REQUESTS

\* Mutant of check_rate_limit: now is appended before the limit test, so a
\* rejected call is recorded too.
check_rate_limit_RecordsRejected(rl, enabled, ip, t) ==
    IF ~enabled
    THEN [ok |-> TRUE, log |-> rl]
    ELSE LET rl1    == IF ip \in DOMAIN rl THEN rl ELSE DictPut(rl, ip, <<>>)
             pruned == Prune(rl1[ip], t)
             rl2    == DictPut(rl1, ip, Append(pruned, t))
         IN  [ok |-> ~OverLimit(pruned), log |-> rl2]

\* Mutant of check_rate_limit: the RATE_LIMIT_ENABLED test of line 77 is missing.
check_rate_limit_IgnoresFlag(rl, enabled, ip, t) ==
    LET rl1    == IF ip \in DOMAIN rl THEN rl ELSE DictPut(rl, ip, <<>>)
        pruned == Prune(rl1[ip], t)
        rl2    == DictPut(rl1, ip, pruned)
    IN  IF OverLimit(rl2[ip])
        THEN [ok |-> FALSE, log |-> rl2]
        ELSE [ok |-> TRUE,  log |-> DictPut(rl2, ip, Append(rl2[ip], t))]

\* lines 75-92, one whole call at clock value t on the dict rl:
\* the result returned and the dict left behind.
check_rate_limit(rl, enabled, ip, t) ==
    IF ~enabled
    THEN [ok |-> TRUE, log |-> rl]
    ELSE LET rl1    == IF ip \in DOMAIN rl THEN rl ELSE DictPut(rl, ip, <<>>)
             pruned == Prune(rl1[ip], t)
             rl2    == DictPut(rl1, ip, pruned)
         IN  IF OverLimit(rl2[ip])
             THEN [ok |-> FALSE, log |-> rl2]
             ELSE [ok |-> TRUE,  log |-> DictPut(rl2, ip, Append(rl2[ip], t))]

\* History bookkeeping: the timestamps of ts that lie in the trailing window
\* (t - window, t].
InWindow(ts, t) == SelectSeq(ts, LAMBDA x : t - x < RATE_LIMIT_WINDOW)

Note(adm, enabled, ip, t, ok) ==
    IF enabled /\ ok THEN [adm EXCEPT ![ip] = Append(InWindow(@, t), t)]
    ELSE adm

(* ------------------------------ actions ------------------------------- *)

\* The module's state when the server starts.
InitServer ==
    /\ now = 0
    /\ RATE_LIMIT_ENABLED \in BOOLEAN
    /\ request_log = <<>>
    /\ last = [ip |-> "none", at |-> 0, result |-> "none"]
    /\ admitted = [c \in Clients |-> <<>>]
    /\ th = [t \in Threads |->
               [pc |-> "idle", ip |-> "none", now |-> 0, tmp |-> <<>>,
                result |-> "none", calls |-> 0]]
    /\ http = NoRequest

InitLimiter ==
    /\ InitServer
    /\ db = [connect |-> TRUE, tables |-> Tables]

\* The wall clock advances by one second.
Tick ==
    /\ now < MaxClock
    /\ now' = now + 1
    /\ admitted' = [c \in Clients |-> InWindow(admitted[c], now + 1)]
    /\ UNCHANGED <<RATE_LIMIT_ENABLED, request_log, last, th, db, http>>

\* One call check_rate_limit(ip), run to completion.
Admit(ip) ==
    LET r == check_rate_limit(request_log, RATE_LIMIT_ENABLED, ip, now) IN
    /\ request_log' = r.log
    /\ last' = [ip |-> ip, at |-> now,
                result |-> IF r.ok THEN "admitted" ELSE "rejected"]
    /\ admitted' = Note(admitted, RATE_LIMIT_ENABLED, ip, now, r.ok)
    /\ UNCHANGED <<now, RATE_LIMIT_ENABLED, th, db, http>>

NextLimiter == Tick \/ \E ip \in Clients : Admit(ip)

SpecLimiter == InitLimiter /\ [][NextLimiter]_vars

(* --------------------------- text conversions -------------------------- *)

Min(a, b) == IF a <= b THEN a ELSE b

\* An optional request argument: <<>> when absent, <<value>> when supplied.
Get(arg, default) == IF arg = <<>> THEN default ELSE arg[1]

Digits == <<"0", "1", "2", "3", "4", "5", "6", "7", "8", "9">>

IsDigit(c) == \E i \in 1..10 : Digits[i] = c

DigitVal(c) == (CHOOSE i \in 1..10 : Digits[i] = c) - 1

\* str(n) of a Python int, as f"{n}" writes it.
RECURSIVE IntToStr(_)
IntToStr(n) ==
    IF n < 0 THEN <<"-">> \o IntToStr(0 - n)
    ELSE IF n < 10 THEN <<Digits[n + 1]>>
    ELSE IntToStr(n \div 10) \o <<Digits[(n % 10) + 1]>>

\* str.strip(): leading and trailing whitespace removed.
RECURSIVE LStrip(_)
LStrip(str) == IF str # <<>> /\ Head(str) = " " THEN LStrip(Tail(str)) ELSE str

RECURSIVE RStrip(_)
RStrip(str) ==
    IF str # <<>> /\ str[Len(str)] = " "
    THEN RStrip(SubSeq(str, 1, Len(str) - 1))
    ELSE str

Strip(str) == RStrip(LStrip(str))

RECURSIVE DigitsVal(_)
DigitsVal(ds) ==
    IF ds = <<>> THEN 0
    ELSE 10 * DigitsVal(SubSeq(ds, 1, Len(ds) - 1)) + DigitVal(ds[Len(ds)])

\* int(str): surrounding whitespace and one sign are accepted, then digits
\* only; anything else raises ValueError (ok = FALSE).
ParseInt(str) ==
    LET t    == Strip(str)
        neg  == t # <<>> /\ Head(t) = "-"
        body == IF t # <<>> /\ Head(t) \in {"-", "+"} THEN Tail(t) ELSE t
    IN  IF body # <<>> /\ \A i \in 1..Len(body) : IsDigit(body[i])
        THEN [ok |-> TRUE, val |-> IF neg THEN 0 - DigitsVal(body) ELSE DigitsVal(body)]
        ELSE [ok |-> FALSE, val |-> 0]

\* str.lower() on the values of the 'type' argument.
Lower(str) == IF str = "ROOT" THEN "root" ELSE str

\* f"{surah}:{verse}"
Reference(surah, verse) == IntToStr(surah) \o <<":">> \o IntToStr(verse)

\* SQLite folds the case of ASCII letters when it compares under LIKE.
FoldCase(c) == IF c = "K" THEN "k" ELSE IF c = "T" THEN "t" ELSE c

\* SQLite's LIKE: % matches any run of characters, _ any one character,
\* every other character itself without regard to ASCII case.
RECURSIVE Like(_, _)
Like(pat, str) ==
    IF pat = <<>> THEN str = <<>>
    ELSE IF Head(pat) = "%"
         THEN Like(Tail(pat), str) \/ (str # <<>> /\ Like(pat, Tail(str)))
         ELSE /\ str # <<>>
              /\ (Head(pat) = "_" \/ FoldCase(Head(pat)) = FoldCase(Head(str)))
              /\ Like(Tail(pat), Tail(str))

\* The parameter f"%{query}%" of the three searches.
Pattern(query) == <<"%">> \o query \o <<"%">>

(* ------------------------------- SQL ----------------------------------- *)

Injective(f) == \A i, j \in DOMAIN f : f[i] = f[j] => i = j

\* Rows a SELECT returns under LIMIT k: SQLite reads a negative k as no limit.
RowCount(n, k) == IF k < 0 THEN n ELSE Min(n, k)

\* SELECT ... LIMIT k without ORDER BY: k of the rows, in an order SQL leaves
\* to the engine.
SelectLimit(rows, k) ==
    {r \in [1..RowCount(Cardinality(rows), k) -> rows] : Injective(r)}

\* SELECT ... ORDER BY a column: every row, the column's values key[row]
\* ascending.
SelectOrdered(rows, key) ==
    {r \in [1..Cardinality(rows) -> rows] :
        /\ Injective(r)
        /\ \A i, j \in DOMAIN r : i < j => key[r[i]] <= key[r[j]]}

\* cursor.execute on each table of tabs in turn; the first table the file
\* lacks raises sqlite3.OperationalError and ends the sequence.
RECURSIVE Executes(_, _)
Executes(tabs, tables) ==
    IF tabs = <<>> THEN <<>>
    ELSE IF Head(tabs) \in tables
         THEN <<"execute">> \o Executes(Tail(tabs), tables)
         ELSE <<"raise">>

Raised(ev) == ev # <<>> /\ ev[Len(ev)] = "raise"

\* Mutant of SelectVerse: the WHERE clause tests the sura only.
SelectVerse_SuraOnly(surah, verse) == {r \in tanzil_texts : r.sura = surah}

\* WHERE sura = ? AND aya = ? on tanzil_texts
SelectVerse(surah, verse) ==
    {r \in tanzil_texts : r.sura = surah /\ r.aya = verse}

(* ----------------------------- responses ------------------------------- *)

\* What a handler hands back: the error_code of APIResponse.error ("OK" for
\* APIResponse.success), the data, and what it did with the database.
Out(code, data, events) == [code |-> code, data |-> data, events |-> events]

DbError == Out("DB_ERROR", <<>>, <<"connect_failed">>)

\* except Exception: the handler returns SERVER_ERROR from where it stands.
ServerError(events) == Out("SERVER_ERROR", <<>>, events)

(* ------------------------------ handlers ------------------------------- *)

\* lines 176-230: the record get_verse builds from the row and the optional tables
VerseRecord(surah, verse, row) ==
    LET tr == {r \in enhanced_translations : r.sura = surah /\ r.verse = verse}
        dm == {r \in diyanet_meal : r.surah = surah /\ r.verse = verse}
        tl == {r \in transliteration : r.surah = surah /\ r.verse = verse}
        mo == {r \in morphology_segments : r.sura = surah /\ r.verse = verse}
    IN  [reference       |-> Reference(surah, verse),
         sura            |-> row.sura,
         verse           |-> row.aya,
         arabic          |-> row.text_simple,
         translations    |-> {<<r.translator_id, r.text>> : r \in tr}
                                 \cup {<<"diyanet", r.meal>> : r \in dm},
         transliteration |-> {r.transliteration : r \in tl},
         morphology      |-> Cardinality(mo)]

\* lines 156-236
get_verse(d, surah, verse) ==
    IF ~d.connect THEN {DbError}
    ELSE LET e1 == Executes(<<"tanzil_texts">>, d.tables) IN
    IF Raised(e1) THEN {ServerError(<<"connect">> \o e1)}
    ELSE LET rows == SelectVerse(surah, verse) IN
    IF rows = {} THEN {Out("NOT_FOUND", <<>>, <<"connect">> \o e1)}
    ELSE LET e2 == Executes(<<"enhanced_translations", "diyanet_meal",
                              "transliteration", "morphology_segments">>, d.tables) IN
    IF Raised(e2) THEN {ServerError(<<"connect">> \o e1 \o e2)}
    ELSE {Out("OK", VerseRecord(surah, verse, row),
              <<"connect">> \o e1 \o e2 \o <<"close">>) : row \in rows}

\* ORDER BY aya
AyaOf == [r \in tanzil_texts |-> r.aya]

\* lines 240-287
get_sura(d, surah) ==
    IF ~d.connect THEN {DbError}
    ELSE LET e1 == Executes(<<"sura_info">>, d.tables) IN
    IF Raised(e1) THEN {ServerError(<<"connect">> \o e1)}
    ELSE LET info == {r \in sura_info : r.sura_number = surah} IN
    IF info = {} THEN {Out("NOT_FOUND", <<>>, <<"connect">> \o e1)}
    ELSE LET e2 == Executes(<<"tanzil_texts">>, d.tables) IN
    IF Raised(e2) THEN {ServerError(<<"connect">> \o e1 \o e2)}
    ELSE {Out("OK",
              [surah |-> surah, name |-> i.sura_name_turkish,
               verse_count |-> i.verse_count,
               verses |-> [k \in DOMAIN vs |->
                              [verse_number |-> vs[k].aya, text |-> vs[k].text_simple,
                               reference |-> Reference(vs[k].sura, vs[k].aya)]]],
              <<"connect">> \o e1 \o e2 \o <<"close">>) :
          i \in info,
          vs \in SelectOrdered({r \in tanzil_texts : r.sura = surah}, AyaOf)}

\* line 300 / 552: min(int(request.args.get('limit', 50)), 500)
ParseLimit(arg) ==
    LET p == IF arg = <<>> THEN [ok |-> TRUE, val |-> DEFAULT_LIMIT]
             ELSE ParseInt(arg[1])
    IN  [ok |-> p.ok, val |-> Min(p.val, MAX_LIMIT)]

\* Mutant of SearchRoot: the WHERE clause tests the lemma column.
SearchRoot_LemmaColumn(query, limit) ==
    LET hits == {[reference |-> Reference(r.sura, r.verse), type |-> "morphology",
                  word |-> r.word_arabic, root |-> r.root, lemma |-> r.lemma] :
                 r \in {m \in morphology_segments : Like(Pattern(query), m.lemma)}}
    IN  SelectLimit(hits, limit)

\* lines 314-328: SELECT DISTINCT sura, verse, word_arabic, root, lemma
\*                WHERE root LIKE ? LIMIT ?
SearchRoot(query, limit) ==
    LET hits == {[reference |-> Reference(r.sura, r.verse), type |-> "morphology",
                  word |-> r.word_arabic, root |-> r.root, lemma |-> r.lemma] :
                 r \in {m \in morphology_segments : Like(Pattern(query), m.root)}}
    IN  SelectLimit(hits, limit)

\* lines 332-345: SELECT DISTINCT sura, verse, segment_arabic, lemma
\*                WHERE lemma LIKE ? LIMIT ?
SearchLemma(query, limit) ==
    LET hits == {[reference |-> Reference(r.sura, r.verse), type |-> "morphology",
                  segment |-> r.segment_arabic, lemma |-> r.lemma] :
                 r \in {m \in morphology_segments : Like(Pattern(query), m.lemma)}}
    IN  SelectLimit(hits, limit)

\* lines 349-361: SELECT sura, aya, text_simple WHERE text_simple LIKE ? LIMIT ?
SearchWord(query, limit) ==
    LET hits == {[reference |-> Reference(r.sura, r.aya), type |-> "verse",
                  text |-> r.text_simple] :
                 r \in {v \in tanzil_texts : Like(Pattern(query), v.text_simple)}}
    IN  SelectLimit(hits, limit)

\* lines 295-373
search(d, q, type, limitArg) ==
    LET query       == Strip(Get(q, <<>>))
        search_type == Lower(Get(type, "word"))
        lim         == ParseLimit(limitArg)
        table       == IF search_type \in {"root", "lemma"}
                       THEN "morphology_segments" ELSE "tanzil_texts"
    IN  IF ~lim.ok THEN {ServerError(<<"raise">>)}
        ELSE IF Len(query) < 2 THEN {Out("INVALID_INPUT", <<>>, <<>>)}
        ELSE IF ~d.connect THEN {DbError}
        ELSE LET e1 == Executes(<<table>>, d.tables) IN
        IF Raised(e1) THEN {ServerError(<<"connect">> \o e1)}
        ELSE {Out("OK",
                  [query |-> query, search_type |-> search_type,
                   result_count |-> Len(res), results |-> res],
                  <<"connect">> \o e1 \o <<"close">>) :
              res \in IF search_type = "root" THEN SearchRoot(query, lim.val)
                      ELSE IF search_type = "lemma" THEN SearchLemma(query, lim.val)
                      ELSE SearchWord(query, lim.val)}

\* ORDER BY word_number
WordNumberOf == [r \in morphology_segments |-> r.word_number]

\* lines 494-543
get_morphology(d, surah, verse) ==
    IF ~d.connect THEN {DbError}
    ELSE LET e1 == Executes(<<"morphology_segments">>, d.tables) IN
    IF Raised(e1) THEN {ServerError(<<"connect">> \o e1)}
    ELSE LET rows == {r \in morphology_segments : r.sura = surah /\ r.verse = verse} IN
    IF rows = {} THEN {Out("NOT_FOUND", <<>>, <<"connect">> \o e1)}
    ELSE {Out("OK",
              [reference |-> Reference(surah, verse), segment_count |-> Len(segs),
               segments |-> [k \in DOMAIN segs |->
                                [word_number |-> segs[k].word_number,
                                 segment |-> segs[k].segment_arabic,
                                 pos |-> segs[k].pos_tag, root |-> segs[k].root,
                                 lemma |-> segs[k].lemma]]],
              <<"connect">> \o e1 \o <<"close">>) :
          segs \in SelectOrdered(rows, WordNumberOf)}

\* lines 547-593
search_morphology(d, pos, root, limitArg) ==
    LET lim == ParseLimit(limitArg) IN
    IF ~lim.ok THEN {ServerError(<<"raise">>)}
    ELSE IF ~d.connect THEN {DbError}
    ELSE LET e1 == Executes(<<"morphology_segments">>, d.tables) IN
    IF Raised(e1) THEN {ServerError(<<"connect">> \o e1)}
    ELSE LET hits == {[reference |-> Reference(r.sura, r.verse),
                       segment |-> r.segment_arabic, pos |-> r.pos_tag,
                       root |-> r.root] :
                      r \in {m \in morphology_segments :
                                /\ (pos # <<>> /\ pos[1] # "") => m.pos_tag = pos[1]
                                /\ (root # <<>> /\ root[1] # <<>>) => m.root = root[1]}}
         IN  {Out("OK", [result_count |-> Len(res), results |-> res],
                  <<"connect">> \o e1 \o <<"close">>) :
              res \in SelectLimit(hits, lim.val)}

\* Python truth of an optional int argument: None and 0 are false.
Truthy(arg) == arg # <<>> /\ arg[1] # 0

\* lines 601-652
export_json(d, surah, verse) ==
    IF ~d.connect THEN {DbError}
    ELSE IF ~Truthy(surah)
    THEN {Out("OK", [record_count |-> 0, data |-> <<>>], <<"connect", "close">>)}
    ELSE LET e1 == Executes(<<"tanzil_texts">>, d.tables) IN
    IF Raised(e1) THEN {ServerError(<<"connect">> \o e1)}
    ELSE IF Truthy(verse)
    THEN LET rows == SelectVerse(surah[1], verse[1]) IN
         IF rows = {} THEN {Out("NOT_FOUND", <<>>, <<"connect">> \o e1)}
         ELSE {Out("OK",
                   [record_count |-> 1,
                    data |-> <<[reference |-> Reference(row.sura, row.aya),
                                text |-> row.text_simple]>>],
                   <<"connect">> \o e1 \o <<"close">>) : row \in rows}
    ELSE {Out("OK",
              [record_count |-> Len(vs),
               data |-> [k \in DOMAIN vs |->
                            [reference |-> Reference(vs[k].sura, vs[k].aya),
                             text |-> vs[k].text_simple]]],
              <<"connect">> \o e1 \o <<"close">>) :
          vs \in SelectOrdered({r \in tanzil_texts : r.sura = surah[1]}, AyaOf)}

\* lines 660-702
get_statistics(d) ==
    IF ~d.connect THEN {DbError}
    ELSE LET e1 == Executes(<<"tanzil_texts", "sura_info", "enhanced_translations",
                              "morphology_segments">>, d.tables) IN
    IF Raised(e1) THEN {ServerError(<<"connect">> \o e1)}
    ELSE {Out("OK",
              [total_verses |-> Cardinality(tanzil_texts),
               total_suras |-> Cardinality(sura_info),
               total_translations |->
                   Cardinality({r.translator_id : r \in enhanced_translations}),
               total_morphology_segments |-> Cardinality(morphology_segments)],
              <<"connect">> \o e1 \o <<"close">>)}

(* ------------------------------ requests ------------------------------- *)

Refs == 0..MaxRef

OptRefs == {<<>>} \cup {<<n>> : n \in Refs}

\* Values of the q argument of /api/search.
Queries ==
    { <<>>, <<"k">>, <<" ", "k", " ">>, <<"k", "t">>, <<" ", "k", "t", " ">>,
      <<"K", "T">>, <<"k", "_">>, <<"t", "k">>, <<"k", "t", "b">>, <<"z", "z">> }

\* Values of the limit argument: absent, integers from -1 to one above the
\* cap, and text that is no integer.
LimitArgs ==
    {<<>>, <<(<<"x">>)>>} \cup {<<IntToStr(n)>> : n \in (0 - 1)..(MAX_LIMIT + 1)}

SearchTypes == {<<>>, <<"word">>, <<"root">>, <<"lemma">>, <<"ROOT">>}

PosArgs == {<<>>, <<"N">>, <<"V">>}

RootArgs == {<<>>, <<(<<"k", "t">>)>>, <<(<<"t", "k">>)>>, <<(<<"z", "z">>)>>}

\* The view function behind each route.
Handle(d, r) ==
    CASE r.op = "get_verse"         -> get_verse(d, r.surah, r.verse)
      [] r.op = "get_sura"          -> get_sura(d, r.surah)
      [] r.op = "search"            -> search(d, r.q, r.type, r.limit)
      [] r.op = "get_morphology"    -> get_morphology(d, r.surah, r.verse)
      [] r.op = "search_morphology" -> search_morphology(d, r.pos, r.root, r.limit)
      [] r.op = "export_json"       -> export_json(d, r.surah, r.verse)
      [] r.op = "get_statistics"    -> get_statistics(d)

\* Mutant of rate_limit: the view function runs before the limit is looked at.
rate_limit_AfterHandler(ok, outs) ==
    IF ~ok THEN {Out("RATE_LIMIT_EXCEEDED", <<>>, o.events) : o \in outs}
    ELSE outs

\* lines 94-105: decorated_function, given the result of check_rate_limit and
\* what f(*args, **kwargs) would do
rate_limit(ok, outs) ==
    IF ~ok THEN {Out("RATE_LIMIT_EXCEEDED", <<>>, <<>>)}
    ELSE outs

\* What Flask hands to the view function of route op: the URL's converted
\* path segments, or request.args, from the values a in the request line.
RequestOf(op, a) ==
    CASE op = "get_verse"         -> [op |-> op, surah |-> a[1], verse |-> a[2]]
      [] op = "get_sura"          -> [op |-> op, surah |-> a[1]]
      [] op = "search"            -> [op |-> op, q |-> a[1], type |-> a[2], limit |-> a[3]]
      [] op = "get_morphology"    -> [op |-> op, surah |-> a[1], verse |-> a[2]]
      [] op = "search_morphology" -> [op |-> op, pos |-> a[1], root |-> a[2], limit |-> a[3]]
      [] op = "export_json"       -> [op |-> op, surah |-> a[1], verse |-> a[2]]
      [] op = "get_statistics"    -> [op |-> op]

\* Connections the events ev opened and did not close.
LeftOpen(ev) ==
    Len(SelectSeq(ev, LAMBDA e : e = "connect"))
        - Len(SelectSeq(ev, LAMBDA e : e = "close"))

\* A handler that returns without conn.close() drops its only reference to the
\* sqlite3 connection.  The interpreter may finalize the object, which closes
\* it, as the frame is released, or at some later collection: the language
\* fixes no time for it.
Finalize(ev) == IF LeftOpen(ev) > 0 THEN {<<>>, <<"finalize">>} ELSE {<<>>}

\* One request served from arrival to response, by one thread; requests are
\* served one at a time.
Request(ip, op, a) ==
    /\ http = NoRequest
    /\ LET c == check_rate_limit(request_log, RATE_LIMIT_ENABLED, ip, now)
           r == RequestOf(op, a) IN
       \E o \in rate_limit(c.ok, Handle(db, r)) : \E g \in Finalize(o.events) :
        /\ request_log' = c.log
        /\ last' = [ip |-> ip, at |-> now,
                    result |-> IF c.ok THEN "admitted" ELSE "rejected"]
        /\ admitted' = Note(admitted, RATE_LIMIT_ENABLED, ip, now, c.ok)
        /\ http' = [op |-> r.op, req |-> r, ip |-> ip, admitted |-> c.ok,
                    code |-> o.code, data |-> o.data,
                    events |-> <<"check_rate_limit">> \o o.events \o g]
        /\ UNCHANGED <<now, RATE_LIMIT_ENABLED, th, db>>

Init ==
    /\ InitServer
    /\ db \in DbStates

ServerTick == now < MaxServerClock /\ Tick

\* GET /api/verses/<int:surah>/<int:verse>
GetVerse ==
    \E a \in Refs, b \in Refs :
        Request("ip1", "get_verse", <<a, b>>)

\* GET /api/verses/<int:surah>
GetSura == \E a \in Refs : Request("ip1", "get_sura", <<a>>)

\* GET /api/search?q=&type=&limit=
Search ==
    \E q \in {<<>>} \cup {<<x>> : x \in Queries}, t \in SearchTypes, l \in LimitArgs :
        Request("ip1", "search", <<q, t, l>>)

\* GET /api/morphology/<int:surah>/<int:verse>
GetMorphology ==
    \E a \in Refs, b \in Refs :
        Request("ip1", "get_morphology", <<a, b>>)

\* GET /api/morphology/search?pos=&root=&limit=
SearchMorphology ==
    \E x \in PosArgs, r \in RootArgs, l \in LimitArgs :
        Request("ip1", "search_morphology", <<x, r, l>>)

\* GET /api/export/json?surah=&verse=
ExportJson ==
    \E a \in OptRefs, b \in OptRefs :
        Request("ip1", "export_json", <<a, b>>)

\* GET /api/statistics
GetStatistics == Request("ip1", "get_statistics", <<>>)

\* The response leaves the server.
Respond ==
    /\ http # NoRequest
    /\ http' = NoRequest
    /\ UNCHANGED <<now, RATE_LIMIT_ENABLED, request_log, last, admitted, th, db>>

Next ==
    \/ ServerTick
    \/ Respond
    \/ GetVerse
    \/ GetSura
    \/ Search
    \/ GetMorphology
    \/ SearchMorphology
    \/ ExportJson
    \/ GetStatistics

Spec == Init /\ [][Next]_vars

(* --------------- check_rate_limit run by several threads --------------- *)
(* The function takes no lock: between two statements of one thread the    *)
(* other threads run.  Each step below is one statement of lines 77-92;    *)
(* line 85 reads the list and builds the filtered copy in one step and     *)
(* stores it in the dict in the next.                                      *)

Goto(t, l) == [th EXCEPT ![t].pc = l]

Return(t, res) == [th EXCEPT ![t].pc = "idle", ![t].result = res, ![t].tmp = <<>>]

\* lines 77-80: a request of ip reaches thread t; the flag is tested and the
\* clock read.
T_Begin(t, ip) ==
    /\ th[t].pc = "idle"
    /\ th[t].calls < MaxCallsPerThread
    /\ th' = IF ~RATE_LIMIT_ENABLED
             THEN [th EXCEPT ![t].ip = ip, ![t].now = now, ![t].result = "admitted",
                             ![t].calls = @ + 1]
             ELSE [th EXCEPT ![t].ip = ip, ![t].now = now, ![t].result = "none",
                             ![t].calls = @ + 1, ![t].pc = "l81"]
    /\ UNCHANGED <<now, RATE_LIMIT_ENABLED, request_log, last, admitted, db, http>>

\* line 81: if ip not in request_log
T_L81(t) ==
    /\ th[t].pc = "l81"
    /\ th' = Goto(t, IF th[t].ip \in DOMAIN request_log THEN "l85" ELSE "l82")
    /\ UNCHANGED <<now, RATE_LIMIT_ENABLED, request_log, last, admitted, db, http>>

\* line 82: request_log[ip] = []
T_L82(t) ==
    /\ th[t].pc = "l82"
    /\ request_log' = DictPut(request_log, th[t].ip, <<>>)
    /\ th' = Goto(t, "l85")
    /\ UNCHANGED <<now, RATE_LIMIT_ENABLED, last, admitted, db, http>>

\* line 85, right-hand side: the filtered copy of the list now in the dict
T_L85_Filter(t) ==
    /\ th[t].pc = "l85"
    /\ th' = [th EXCEPT ![t].pc = "l85s",
                        ![t].tmp = Prune(request_log[th[t].ip], th[t].now)]
    /\ UNCHANGED <<now, RATE_LIMIT_ENABLED, request_log, last, admitted, db, http>>

\* line 85, assignment: request_log[ip] = <the copy>
T_L85_Store(t) ==
    /\ th[t].pc = "l85s"
    /\ request_log' = DictPut(request_log, th[t].ip, th[t].tmp)
    /\ th' = [th EXCEPT ![t].pc = "l88", ![t].tmp = <<>>]
    /\ UNCHANGED <<now, RATE_LIMIT_ENABLED, last, admitted, db, http>>

\* lines 88-89: the limit test, return False
T_L88(t) ==
    /\ th[t].pc = "l88"
    /\ th' = IF OverLimit(request_log[th[t].ip])
             THEN Return(t, "rejected")
             ELSE Goto(t, "l91")
    /\ UNCHANGED <<now, RATE_LIMIT_ENABLED, request_log, last, admitted, db, http>>

\* lines 91-92: request_log[ip].append(now); return True
T_L91(t) ==
    /\ th[t].pc = "l91"
    /\ request_log' = DictPut(request_log, th[t].ip,
                              Append(request_log[th[t].ip], th[t].now))
    /\ th' = Return(t, "admitted")
    /\ admitted' = [admitted EXCEPT
                       ![th[t].ip] = InWindow(Append(@, th[t].now), now)]
    /\ UNCHANGED <<now, RATE_LIMIT_ENABLED, last, db, http>>

NextThreads ==
    \/ (now < MaxThreadClock /\ Tick)
    \/ \E t \in Threads, ip \in Clients : T_Begin(t, ip)
    \/ \E t \in Threads : T_L81(t)
    \/ \E t \in Threads : T_L82(t)
    \/ \E t \in Threads : T_L85_Filter(t)
    \/ \E t \in Threads : T_L85_Store(t)
    \/ \E t \in Threads : T_L88(t)
    \/ \E t \in Threads : T_L91(t)

SpecThreads == InitLimiter /\ [][NextThreads]_vars

\* Occurrences of x in the sequence s.
Count(s, x) == Cardinality({i \in 1..Len(s) : s[i] = x})

\* C3: whatever the interleaving of concurrent calls, the calls admitted for a
\* client within one window never exceed RATE_LIMIT_REQUESTS, and once no call
\* is in progress the timestamp of every call admitted within the window is in
\* the client's record, as often as it was admitted.
C3_ConcurrentAdmitIsSequential ==
    RATE_LIMIT_ENABLED =>
        \A c \in Clients :
            /\ Len(admitted[c]) <= RATE_LIMIT_REQUESTS
            /\ (\A t \in Threads : th[t].pc = "idle") =>
                  \A x \in Range(admitted[c]) :
                      /\ c \in DOMAIN request_log
                      /\ Count(request_log[c], x) >= Count(admitted[c], x)

(* ----------------------- claims on the limiter ------------------------ *)

\* C1: with the limiter enabled, for every client the number of admitted calls
\* whose timestamps lie in a trailing interval of length window never exceeds
\* RATE_LIMIT_REQUESTS, whatever the other clients do.  admitted[c] holds the
\* admitted timestamps t of c with now - t < window at every clock value, and
\* an interval holding the most admitted calls ends at one of them.
C1_WindowBound ==
    RATE_LIMIT_ENABLED =>
        \A c \in Clients : Len(admitted[c]) <= RATE_LIMIT_REQUESTS

\* C1 witness: past the first day, one client has used its whole allowance and
\* is being rejected while the other client holds admitted calls of its own.
C1_Witness ==
    /\ RATE_LIMIT_ENABLED
    /\ now > SecondsPerDay
    /\ \E c \in Clients, o \in Clients :
          /\ c # o
          /\ Len(admitted[c]) = RATE_LIMIT_REQUESTS
          /\ last = [ip |-> c, at |-> now, result |-> "rejected"]
          /\ Len(admitted[o]) > 0

\* C2: a client's call is rejected only while RATE_LIMIT_REQUESTS admitted calls
\* of that client lie within the trailing window: the calls up to the limit are
\* admitted, the next one inside the window is rejected, and a call made later
\* than window after the first of them, however much later, is admitted again.
C2_AdmittedAgainAfterWindow ==
    (RATE_LIMIT_ENABLED /\ last.result = "rejected" /\ last.at = now) =>
        Len(admitted[last.ip]) >= RATE_LIMIT_REQUESTS

\* C4: a rejected call leaves in the client's record no timestamp that was not
\* in it before, and does not lengthen it.
C4_RejectRecordsNothing ==
    [][\A c \in Clients :
          (last'.ip = c /\ last'.result = "rejected") =>
              /\ c \in DOMAIN request_log
              /\ c \in DOMAIN request_log'
              /\ Range(request_log'[c]) \subseteq Range(request_log[c])
              /\ Len(request_log'[c]) <= Len(request_log[c])]_vars

\* C4 witness: a call was rejected at a clock value that the full record does
\* not hold.
C4_Witness ==
    /\ last.result = "rejected"
    /\ last.ip \in DOMAIN request_log
    /\ last.at \notin Range(request_log[last.ip])
    /\ Len(request_log[last.ip]) = RATE_LIMIT_REQUESTS

\* C5: with the limiter disabled every call is admitted and request_log stays
\* as it was constructed: no client entry is created or modified.
C5_DisabledLeavesNoState ==
    ~RATE_LIMIT_ENABLED =>
        /\ DOMAIN request_log = {}
        /\ last.result # "rejected"

\* C5 witness: the limiter is disabled and a call has been answered.
C5_Witness ==
    /\ ~RATE_LIMIT_ENABLED
    /\ last.result = "admitted"
    /\ now > 0

(* ----------------------- claims on the handlers ------------------------ *)

\* What the handler did with the database while serving the request in http.
TouchedDatabase ==
    \E i \in 1..Len(http.events) :
        http.events[i] \in {"connect", "connect_failed", "execute", "raise", "close"}

\* C6: for every query operation the limiter is consulted first: a request it
\* rejects gets RATE_LIMIT_EXCEEDED and no connection is opened nor any query
\* run for it, and whatever is done with the database is done for a request the
\* limiter admitted.
C6_AdmitBeforeQuery ==
    http # NoRequest =>
        /\ http.events[1] = "check_rate_limit"
        /\ http.admitted = (last.result = "admitted")
        /\ last.ip = http.ip
        /\ ~http.admitted => (http.code = "RATE_LIMIT_EXCEEDED" /\ ~TouchedDatabase)
        /\ http.code = "RATE_LIMIT_EXCEEDED" => ~http.admitted
        /\ TouchedDatabase => http.admitted

\* C6 witness: a search with a valid query on a working database is turned away
\* by the limiter.
C6_Witness ==
    /\ http # NoRequest
    /\ http.op = "search"
    /\ http.req.q = <<(<<"k", "t">>)>>
    /\ db = [connect |-> TRUE, tables |-> Tables]
    /\ ~http.admitted
    /\ Len(request_log["ip1"]) = RATE_LIMIT_REQUESTS

\* The arguments of the search request in http, as the handler reads them.
QueryOf == Strip(Get(http.req.q, <<>>))

TypeOf == Lower(Get(http.req.type, "word"))

\* The texts the search of the request in http looks into.
SearchedTexts ==
    IF TypeOf = "root" THEN {m.root : m \in morphology_segments}
    ELSE IF TypeOf = "lemma" THEN {m.lemma : m \in morphology_segments}
    ELSE {v.text_simple : v \in tanzil_texts}

\* C7: a search whose query has fewer than 2 characters after trimming returns
\* INVALID_INPUT for every mode and every limit value supplied; a query of 2 or
\* more characters that matches nothing returns an empty list as a success.
C7_ShortQueryIsInvalidInput ==
    (http # NoRequest /\ http.op = "search" /\ http.admitted) =>
        /\ Len(QueryOf) < 2 => http.code = "INVALID_INPUT"
        /\ ( /\ Len(QueryOf) >= 2
             /\ \A x \in SearchedTexts : ~Like(Pattern(QueryOf), x)
             /\ db = [connect |-> TRUE, tables |-> Tables]
             /\ ParseLimit(http.req.limit).ok )
           => (http.code = "OK" /\ http.data.results = <<>>)

\* C8: whatever integer limit is requested, search and morphology search return
\* at most MAX_LIMIT results, and a limit above the cap does not fail the call.
C8_ResultsNeverExceedCap ==
    ( /\ http # NoRequest
      /\ http.op \in {"search", "search_morphology"}
      /\ http.admitted
      /\ http.req.limit # <<>>
      /\ ParseInt(http.req.limit[1]).ok ) =>
        /\ http.code = "OK" => Len(http.data.results) <= MAX_LIMIT
        /\ ( /\ ParseInt(http.req.limit[1]).val > MAX_LIMIT
             /\ db = [connect |-> TRUE, tables |-> Tables]
             /\ (http.op = "search" => Len(QueryOf) >= 2) )
           => http.code = "OK"

\* (sura, verse) read back from a reference "sura:verse".
ParseReference(ref) ==
    LET c == CHOOSE i \in 1..Len(ref) : ref[i] = ":"
    IN  <<ParseInt(SubSeq(ref, 1, c - 1)).val,
          ParseInt(SubSeq(ref, c + 1, Len(ref))).val>>

RefLeq(a, b) == a[1] < b[1] \/ (a[1] = b[1] /\ a[2] <= b[2])

RootSearchAnswered ==
    /\ http # NoRequest
    /\ http.op = "search"
    /\ http.code = "OK"
    /\ TypeOf = "root"

VersePresent ==
    \E r \in tanzil_texts : r.sura = http.req.surah /\ r.aya = http.req.verse

GetVerseAnswered == http # NoRequest /\ http.op = "get_verse" /\ http.admitted

\* C10: get_verse answers NOT_FOUND exactly when (sura, verse) is absent from
\* the Verse table, with no record; for a verse present the record's reference
\* reads back as the requested (sura, verse) and its sura and verse fields are
\* the requested ones.  The Verse table decides once it can be read; with every
\* table in place a verse present always yields the record.
C10_NotFoundIffAbsent ==
    GetVerseAnswered =>
        /\ http.code = "NOT_FOUND" => (~VersePresent /\ http.data = <<>>)
        /\ http.code = "OK" =>
              /\ VersePresent
              /\ ParseReference(http.data.reference) = <<http.req.surah, http.req.verse>>
              /\ http.data.sura = http.req.surah
              /\ http.data.verse = http.req.verse
        /\ (db.connect /\ "tanzil_texts" \in db.tables) =>
              /\ ~VersePresent => http.code = "NOT_FOUND"
              /\ VersePresent => http.code \in {"OK", "SERVER_ERROR"}
        /\ (db.connect /\ db.tables = Tables /\ VersePresent) => http.code = "OK"

\* C10 witness: a verse of a sura that holds other verses is asked for and is
\* absent.
C10_Witness ==
    /\ GetVerseAnswered
    /\ http.req.surah = 1
    /\ http.req.verse = 3
    /\ http.code = "NOT_FOUND"

\* A get_verse or get_morphology request was admitted and the Verse table could
\* be read.
VerseTableRead ==
    /\ http # NoRequest
    /\ http.op \in {"get_verse", "get_morphology"}
    /\ http.admitted
    /\ db.connect
    /\ "tanzil_texts" \in db.tables

\* C11: for a verse present in the Verse table get_verse and get_morphology
\* succeed, whether or not the translations, transliteration or morphology
\* datasets are there and hold rows for the verse; NOT_FOUND is answered only
\* when the Verse table lacks the verse.
C11_PartialDataNeverFails ==
    VerseTableRead =>
        /\ VersePresent => http.code = "OK"
        /\ http.code = "NOT_FOUND" => ~VersePresent

(* ----------------------- claims on the limiter, II --------------------- *)

\* A call of check_rate_limit has just returned, at the clock value of the state.
JustCalled == last.result # "none" /\ last.at = now

\* C12: when a call of check_rate_limit returns with the limiter enabled,
\* admitted or rejected, every timestamp t in the caller's record has
\* now - t < RATE_LIMIT_WINDOW, however long the client stayed away.
C12_NoTimestampOlderThanWindow ==
    (RATE_LIMIT_ENABLED /\ JustCalled) =>
        \A t \in Range(request_log[last.ip]) : now - t < RATE_LIMIT_WINDOW

\* The latest call of client c lies more than a window back.  A record shorter
\* than the limit was left by an admitted call, whose timestamp is its last
\* element; a full record may have been left by a rejected call, of which the
\* record keeps no time, and is not counted.
StaleEntry(c) ==
    /\ c \in DOMAIN request_log
    /\ Len(request_log[c]) \in 1..(RATE_LIMIT_REQUESTS - 1)
    /\ now - request_log[c][Len(request_log[c])] > RATE_LIMIT_WINDOW

\* C13: a client that has made no call for longer than the window keeps no
\* entry in request_log once the limiter has been accessed again: when a call
\* returns, no other client's stale entry is left.
C13_StaleEntriesReclaimed ==
    (RATE_LIMIT_ENABLED /\ JustCalled) =>
        \A c \in Clients \ {last.ip} : ~StaleEntry(c)

(* ---------------------- claims on the handlers, II --------------------- *)

\* The connections of the request in http that are open when its handler has
\* returned: those it opened, less those closed by conn.close() or by the
\* interpreter on the way out.
OpenAtReturn ==
    LeftOpen(http.events)
        - Len(SelectSeq(http.events, LAMBDA e : e = "finalize"))

\* C14: whatever a handler answers (OK, NOT_FOUND, INVALID_INPUT, DB_ERROR,
\* SERVER_ERROR), no connection it opened is open when it has returned.
C14_NoConnectionLeftOpen ==
    http # NoRequest => OpenAtReturn = 0

====
